---- MODULE Spec2Model ----
(***************************************************************************)
(* State machine of the webhook order relay in src/app.py: the in-memory   *)
(* cache BOT_MEMORY, the Dashboard worksheet, the exchange account, the    *)
(* background thread and the two HTTP routes /webhook and /cli.            *)
(*                                                                         *)
(* Number representation (Python floats are modelled as exact decimals):   *)
(*   money     integer cents            (1000.00 USDT = 100000)            *)
(*   amt       integer milli-cents      (cents * tenths of a percent)      *)
(*   percent   integer tenths of a %    (100.0 % = 1000, 99.9 % = 999)     *)
(*   quantity  integer units of 0.00001 coin (the default step size)       *)
(*   price     integer USDT per coin, so cents = units * price / 1000      *)
(* Products and quotients are exact at that resolution (quotients round    *)
(* down).  The one place where the float representation changes a result   *)
(* by a whole model unit is the modulo of round_step_size; it is modelled  *)
(* by the table FmodExact, computed with CPython's float arithmetic.       *)
(* A dictionary key or sheet cell that may be absent is a sequence: <<>>   *)
(* when absent or empty, <<x>> when it holds x.                            *)
(***************************************************************************)
EXTENDS Integers, Sequences, FiniteSets, TLC

VARIABLES
    BOT_MEMORY,   \* the cache: d2_cap, e2_pct, h4_cost, f2_type, last_error
    sheet,        \* the Dashboard worksheet: cells D2 E2 F2 H4 H3 H2, log rows
    exchange,     \* the spot account: free balances, open orders, market
    thread,       \* background_sync_loop: booted (init_memory_state ran), tick,
                  \* fails, sleep
    nreq,         \* HTTP requests handled so far
    calls,        \* update_compounding_after_trade calls in flight, by handler
                  \* (under LogSpec: the log writes in flight, by handler)
    rounding,     \* a call of round_step_size: its arguments and its outcome
    run,          \* history: the current run of consecutive BUY fills
    last          \* history: what the last operation read, decided and did

vars ==
    <<BOT_MEMORY, sheet, exchange, thread, nreq, calls, rounding, run, last>>

----------------------------------------------------------------------------
(* Bounds of the model *)

MaxRequests == 2
MaxTicks == 1
MaxLoops == 3
MaxMultiple == 40
MaxHandlers == 2

(* Program constants *)

\* `if amt > 10`, in USDT
MinNotional == 10
\* BOT_MEMORY["e2_pct"] = 100.0 and the E2 default 100, in tenths of a percent
DefaultPct == 1000
\* `if next_row < 6: next_row = 6`: rows 1..5 are the dashboard and headers
HeaderRows == 5
\* `rem_bal < (coin_qty * 0.02)`, in hundredths
DustPerCent == 2
SyncPeriod == 15

----------------------------------------------------------------------------
(* Helpers *)

Min(a, b) == IF a <= b THEN a ELSE b

\* dict.get(key, default), and a cell read with its default
Get(opt, default) == IF opt = <<>> THEN default ELSE opt[1]

\* round(x, 2) of an amount in milli-cents, in cents (ties to even)
Round2(amtK) ==
    LET c == amtK \div 1000
        r == amtK % 1000
    IN  IF r > 500 \/ (r = 500 /\ c % 2 = 1) THEN c + 1 ELSE c

\* The multiples n of the step for which Python's float remainder
\* (n * step) % step is zero or negligible, so that round_step_size
\* returns n * step; for every other multiple the float modulo is just
\* under one step and round_step_size returns (n - 1) * step.  Computed
\* with CPython for n <= 1000 ('0.00001') and n <= 100 ('0.1').  A step of
\* whole units ('1', a price tick of '10') is exact, and so is a tick below
\* the price resolution.
FmodExact(step_size) ==
    IF step_size = "0.1"
    THEN {0, 1, 2, 4, 8, 11, 16, 22, 27, 32, 44, 49, 54, 59, 64, 83, 88, 93,
          98}
    ELSE IF step_size = "0.00001"
    THEN {0, 1, 2, 4, 8, 16, 32, 64, 103, 111, 128, 205, 206, 222, 223, 239,
          256, 393, 395, 410, 412, 427, 429, 444, 446, 461, 478, 495, 512,
          786, 790, 803, 807, 820, 824, 837, 841, 854, 858, 871, 875, 888,
          892, 905, 909, 922, 939, 956, 973, 990}
    ELSE Nat

\* float(step_size) in model units: quantity units for a step size, USDT
\* for a tick size ('0.000001' is below the price resolution)
StepUnits(step_size) == IF step_size = "10" THEN 10 ELSE 1

\* round_step_size of the quantity num/den (in model units)
RoundStepRatio(num, den, step_size) ==
    LET u == StepUnits(step_size)
        whole == num \div den
        n == whole \div u
        multiple == (num % den = 0) /\ (whole % u = 0)
    IN  IF multiple /\ n \notin FmodExact(step_size)
        THEN (n - 1) * u
        ELSE n * u

round_step_size(quantity, step_size) == RoundStepRatio(quantity, 1, step_size)

\* precision = int(round(-math.log(float(step_size), 10), 0)): <<k>> for a
\* step 10^-k, and <<>> when math.log raises ValueError, which it does for
\* a step that is not positive.
Precision(step_size) ==
    IF step_size = "10" THEN <<-1>>
    ELSE IF step_size = "1" THEN <<0>>
    ELSE IF step_size = "0.1" THEN <<1>>
    ELSE IF step_size = "0.00001" THEN <<5>>
    ELSE IF step_size = "0.000001" THEN <<6>>
    ELSE <<>>

----------------------------------------------------------------------------
(* Compounding Engine: update_compounding_after_trade *)

\* Faulty variant of BuyCostBasis: the buy replaces the cost basis
BuyCostBasisReplaced(current_cost, usdt_value) == usdt_value

\* BUY: new_h4 = current_cost + usdt_value
BuyCostBasis(current_cost, usdt_value) == current_cost + usdt_value

\* Faulty variants of CostOfSoldPortion: the whole cost basis is
\* attributed to every sale; the ratio is inverted
CostOfSoldPortionWhole(current_cost, coin_qty, total_held) == current_cost

CostOfSoldPortionInverted(current_cost, coin_qty, total_held) ==
    (current_cost * total_held) \div coin_qty

\* cost_of_sold_portion = current_cost * (coin_qty / total_held)
CostOfSoldPortion(current_cost, coin_qty, total_held) ==
    (current_cost * coin_qty) \div total_held

\* Faulty variant of IsDust: only an empty balance counts as dust
IsDustOnlyEmpty(rem_bal, coin_qty) == rem_bal = 0

\* `if rem_bal < (coin_qty * 0.02)`
IsDust(rem_bal, coin_qty) == rem_bal * 100 < coin_qty * DustPerCent

\* SELL: new_h4 = current_cost - cost_of_sold_portion, reset to 0 on dust
SellCostBasis(current_cost, cost_of_sold_portion, rem_bal, coin_qty) ==
    IF IsDust(rem_bal, coin_qty) THEN 0
    ELSE current_cost - cost_of_sold_portion

\* Faulty variant of SellCapital: the whole revenue is added to capital
SellCapitalRevenue(current_cap, usdt_value, cost_of_sold_portion) ==
    current_cap + usdt_value

\* SELL: new_d2 = current_cap + (usdt_value - cost_of_sold_portion)
SellCapital(current_cap, usdt_value, cost_of_sold_portion) ==
    current_cap + (usdt_value - cost_of_sold_portion)

\* Faulty variant of NewState: a SELL with nothing held before it counts as
\* having sold everything and resets the cost basis.
NewStateResetsEmpty(current_cap, current_cost, side, usdt_value, coin_qty, rem_bal) ==
    LET total_held == rem_bal + coin_qty
        cost_of_sold_portion ==
            CostOfSoldPortion(current_cost, coin_qty, total_held)
    IN  IF side = "BUY"
        THEN [d2 |-> current_cap,
              h4 |-> BuyCostBasis(current_cost, usdt_value)]
        ELSE IF side = "SELL" /\ total_held > 0
        THEN [d2 |-> SellCapital(current_cap, usdt_value,
                                 cost_of_sold_portion),
              h4 |-> SellCostBasis(current_cost, cost_of_sold_portion,
                                   rem_bal, coin_qty)]
        ELSE [d2 |-> current_cap, h4 |-> 0]

\* The values written to BOT_MEMORY (and then to the sheet) for one fill.
\* rem_bal is get_balance(base) after the order.
NewState(current_cap, current_cost, side, usdt_value, coin_qty, rem_bal) ==
    LET total_held == rem_bal + coin_qty
        cost_of_sold_portion ==
            CostOfSoldPortion(current_cost, coin_qty, total_held)
    IN  IF side = "BUY"
        THEN [d2 |-> current_cap,
              h4 |-> BuyCostBasis(current_cost, usdt_value)]
        ELSE IF side = "SELL" /\ total_held > 0
        THEN [d2 |-> SellCapital(current_cap, usdt_value,
                                 cost_of_sold_portion),
              h4 |-> SellCostBasis(current_cost, cost_of_sold_portion,
                                   rem_bal, coin_qty)]
        ELSE [d2 |-> current_cap, h4 |-> current_cost]

\* sheet.update('D2'), ('H3'), ('H4') inside one try: when the first call
\* raises, none of the three cells is written.
UpdateSheetState(sh, new_d2, new_h4, f) ==
    IF "sheet_update" \in f THEN sh
    ELSE [sh EXCEPT !.D2 = <<new_d2>>, !.H3 = <<new_d2>>, !.H4 = <<new_h4>>]

----------------------------------------------------------------------------
(* Sizing (webhook, "3. Determine Trade Size") *)

\* Faulty variant of EffCap: the wallet balance is ignored
EffCapUnchecked(d2_cap, bal) == d2_cap

\* eff_cap = min(d2_cap, bal)
EffCap(d2_cap, bal) == Min(d2_cap, bal)

\* req_pct = float(data.get('PercentAmount', data.get('percentage', e2_pct)))
ReqPct(data, e2_pct) == Get(data.pct, e2_pct)

\* amt = eff_cap * (req_pct / 100.0), in milli-cents
Amt(eff_cap, req_pct) == eff_cap * req_pct

\* `if amt > 10`
AboveMinNotional(amt) == amt > MinNotional * 100000

\* qty = round_step_size(coin_bal, step)
SellQty(coin_bal, step) == round_step_size(coin_bal, step)

\* "2. Determine Order Type"
TargetType(data, f2_type) ==
    LET payload_type == Get(data.type, "MARKET")
        sent_price == data.price
    IN  IF ~data.cli /\ payload_type = "MARKET" /\ f2_type = "LIMIT"
           /\ sent_price # <<>> /\ sent_price[1] > 0
        THEN "LIMIT"
        ELSE payload_type

----------------------------------------------------------------------------
(* Exchange Gateway *)

\* get_balance(asset): the free balance, 0.0 when the call fails
get_balance(ex, asset, failed) ==
    IF failed THEN 0
    ELSE IF asset = "USDT" THEN ex.usdt ELSE ex.coin

\* get_symbol_step_size / get_price_tick_size with their fallbacks
get_symbol_step_size(ex, f) ==
    IF "exchange_info" \in f THEN "0.00001" ELSE ex.step

get_price_tick_size(ex, f) ==
    IF "exchange_info" \in f THEN "0.000001" ELSE ex.tick

\* cents locked by, or paid for, qty units at price p
Quote(qty, p) == (qty * p) \div 1000

\* cancel_all_open_orders: client.cancel_open_orders releases what the open
\* orders had locked
CancelOpen(ex) ==
    LET RECURSIVE Release(_, _)
        Release(e, os) ==
            IF os = <<>> THEN e
            ELSE LET o == Head(os)
                 IN  Release(IF o.side = "BUY"
                             THEN [e EXCEPT !.usdt = @ + Quote(o.qty, o.price)]
                             ELSE [e EXCEPT !.coin = @ + o.qty],
                             Tail(os))
    IN  [Release(ex, ex.open) EXCEPT !.open = <<>>]

cancel_all_open_orders(ex, f) ==
    IF "cancel" \notin f /\ ex.open # <<>> THEN CancelOpen(ex) ELSE ex

NoResp == [kind |-> "none", cummulativeQuoteQty |-> <<>>, fills |-> <<>>,
           origQty |-> <<>>, price |-> <<>>]

\* client.new_order(**params): [raised, ex, resp].  A MARKET order fills at
\* the market price in one or two fills; a LIMIT order rests open and locks
\* its funds.  The exchange rejects (ClientError) a quantity that is zero or
\* off the LOT_SIZE step, and an order the free balance does not cover.
new_order(ex, params, f) ==
    LET u == StepUnits(ex.step)
        isQuote == params.quoteOrderQty # <<>>
        qty == IF isQuote
               THEN (((params.quoteOrderQty[1] * 1000) \div ex.price) \div u) * u
               ELSE params.quantity[1]
        p == IF params.type = "LIMIT" THEN params.price[1] ELSE ex.price
        cost == Quote(qty, p)
        rejected ==
            \/ "order" \in f
            \/ qty <= 0
            \/ qty % u # 0
            \/ p <= 0
            \/ params.side = "BUY" /\ cost > ex.usdt
            \/ params.side = "SELL" /\ qty > ex.coin
        first == ((qty \div 2) \div u) * u
        fills == IF "two_fills" \in f /\ first > 0 /\ first < qty
                 THEN <<first, qty - first>>
                 ELSE <<qty>>
        moved == IF params.side = "BUY"
                 THEN [ex EXCEPT !.usdt = @ - cost,
                                 !.coin = IF params.type = "LIMIT"
                                          THEN @ ELSE @ + qty]
                 ELSE [ex EXCEPT !.coin = @ - qty,
                                 !.usdt = IF params.type = "LIMIT"
                                          THEN @ ELSE @ + cost]
    IN  IF rejected
        THEN [raised |-> TRUE, ex |-> ex, resp |-> NoResp]
        ELSE IF params.type = "LIMIT"
        THEN [raised |-> FALSE,
              ex |-> [moved EXCEPT !.open = Append(@,
                         [side |-> params.side, qty |-> qty, price |-> p])],
              resp |-> [kind |-> "order", cummulativeQuoteQty |-> <<0>>,
                        fills |-> <<>>, origQty |-> <<qty>>,
                        price |-> <<p>>]]
        ELSE [raised |-> FALSE,
              ex |-> moved,
              resp |-> [kind |-> "order", cummulativeQuoteQty |-> <<cost>>,
                        fills |-> fills, origQty |-> <<qty>>,
                        price |-> <<0>>]]

----------------------------------------------------------------------------
(* The environment: signals, faults, initial configurations *)

\* Points at which one call of a request or iteration can fail, and
\* "two_fills": the exchange fills a MARKET order in two fills.
FaultPoints ==
    {"cancel",          \* get_open_orders / cancel_open_orders raises
     "balance",         \* get_balance before sizing raises (returns 0.0)
     "exchange_info",   \* exchange_info raises (default step and tick)
     "order",           \* new_order raises ClientError
     "sheet_open",      \* get_sheet() raises, also after its reconnect
     "sheet_read",      \* batch_get / acell raises
     "balance_after",   \* get_balance after the order raises (returns 0.0)
     "sheet_update",    \* the first sheet.update of a block raises
     "col_values",      \* sheet.col_values(1) raises
     "log_update",      \* sheet.update of the log row raises
     "two_fills"}

\* One request or iteration meets at most one of them.
Scenarios == {{}} \cup {{x} : x \in FaultPoints}

\* The scenarios that matter to an operation that only talks to the sheet
\* and reads balances.
SheetScenarios ==
    {f \in Scenarios :
        f \subseteq {"sheet_open", "sheet_read", "sheet_update",
                     "balance_after"}}

\* Tenths of a percent a signal may carry as PercentAmount / percentage
OverridePcts == {50, 1000, 1500}

\* The price a signal may send, in USDT
SentPrices == {50005}

\* Request bodies with the right passphrase, symbol and a side.
Signals ==
    {d \in [side : {"BUY", "SELL"},
            pct : {<<>>} \cup {<<x>> : x \in OverridePcts},
            type : {<<>>, <<"LIMIT">>},
            price : {<<>>} \cup {<<x>> : x \in SentPrices},
            cli : BOOLEAN] :
        /\ d.side = "SELL" => d.pct = <<>>
        /\ d.pct # <<>> => d.type = <<>> /\ d.price = <<>>
        /\ d.cli => d.type = <<>> /\ d.price # <<>> /\ d.side = "BUY"}

\* Initial configurations: the operator's capital cell D2 and the coins
\* held at start, bought at 50000 USDT per coin (H4 = 50 cents per unit):
\* an empty D2 with 0.00130 coins, or 100.00 USDT with 0.00033 coins.  The
\* symbol trades at 60000 USDT with a LOT_SIZE step of 0.00001 and a price
\* tick of 10; the wallet holds 150.00 USDT.
InitConfigs ==
    {[D2 |-> <<>>, held |-> 130], [D2 |-> <<10000>>, held |-> 33]}

NoParams == [side |-> "", type |-> "", quoteOrderQty |-> <<>>,
             quantity |-> <<>>, price |-> <<>>]

\* What an operation that is no signal leaves in the history record.
\* The configured secret, the passphrases requests carry (the secret, the
\* secret in another case, none), and the comparison of lines 253 and 449.
WEBHOOK_PASSPHRASE == "s3cret"

SentPassphrases == {"s3cret", "S3CRET", ""}

Authorized(passphrase) == passphrase = WEBHOOK_PASSPHRASE

Quiet(op) ==
    [op |-> op, code |-> 200, passphrase |-> WEBHOOK_PASSPHRASE,
     side |-> "", pct |-> <<>>,
     pre |-> BOT_MEMORY, preD2 |-> sheet.D2, preE2 |-> sheet.E2,
     preH4 |-> sheet.H4,
     storeReads |-> 0,
     prevReads |-> 0,
     d2_cap |-> 0, e2_pct |-> 0,
     sized |-> FALSE, bal |-> 0, step |-> "", req_pct |-> 0, amt0 |-> 0,
     amt |-> 0, target_type |-> "", placed |-> 0, params |-> NoParams,
     status |-> "Pending", resp_status |-> "",
     filled |-> FALSE, cur_cap |-> 0, cur_cost |-> 0,
     v |-> 0, q |-> 0, r |-> 0, nfills |-> 0, logged |-> 0]

\* The history record before the first operation.
StartRecord ==
    [op |-> "start", code |-> 200, passphrase |-> WEBHOOK_PASSPHRASE,
     side |-> "", pct |-> <<>>,
     pre |-> [d2_cap |-> 0, e2_pct |-> DefaultPct, h4_cost |-> 0,
              f2_type |-> "MARKET", last_error |-> "unset"],
     preD2 |-> <<>>, preE2 |-> <<>>, preH4 |-> <<>>,
     storeReads |-> 0, prevReads |-> 0, d2_cap |-> 0, e2_pct |-> 0,
     sized |-> FALSE, bal |-> 0, step |-> "", req_pct |-> 0, amt0 |-> 0,
     amt |-> 0, target_type |-> "", placed |-> 0, params |-> NoParams,
     status |-> "Pending", resp_status |-> "",
     filled |-> FALSE, cur_cap |-> 0, cur_cost |-> 0,
     v |-> 0, q |-> 0, r |-> 0, nfills |-> 0, logged |-> 0]

\* Request handlers that may overlap (Flask serves each request in its own
\* thread), and a handler that is not inside update_compounding_after_trade.
Handlers == 1..MaxHandlers

NoCall == [pc |-> "idle", side |-> "", usdt_value |-> 0, coin_qty |-> 0,
           current_cost |-> 0, current_cap |-> 0, rem_bal |-> 0,
           new_d2 |-> 0, new_h4 |-> 0, raised |-> FALSE]

\* No call of round_step_size is being followed.
NoRounding == [pc |-> "none", step_size |-> "", num |-> 0, result |-> 0]

NoRun == [active |-> FALSE, c0 |-> 0, cap0 |-> 0, sum |-> 0, n |-> 0,
          fills |-> 0]

Init ==
    /\ BOT_MEMORY = [d2_cap |-> 0, e2_pct |-> DefaultPct, h4_cost |-> 0,
                     f2_type |-> "MARKET", last_error |-> "unset"]
    /\ \E cfg \in InitConfigs :
        /\ sheet = [D2 |-> cfg.D2, E2 |-> <<500>>, F2 |-> <<"LIMIT">>,
                    H4 |-> <<cfg.held * 50>>, H3 |-> cfg.D2,
                    H2 |-> <<cfg.held>>, log |-> <<>>]
        /\ exchange = [usdt |-> 15000, coin |-> cfg.held, open |-> <<>>,
                       price |-> 60000, step |-> "0.00001", tick |-> "10"]
    /\ thread = [booted |-> FALSE, tick |-> 0, fails |-> 0, sleep |-> 0]
    /\ nreq = 0
    /\ calls = [h \in Handlers |-> NoCall]
    /\ rounding = NoRounding
    /\ run = NoRun
    /\ last = StartRecord

----------------------------------------------------------------------------
(* The Dashboard worksheet *)

\* write_log_row: the row goes to row len(col A) + 1, never above row 6;
\* when that fails the row is appended with append_row.  log[i] is sheet
\* row HeaderRows + i.  Returns [raised, sh, rows written].
write_log_row(sh, row_data, f) ==
    LET next_row == IF HeaderRows + Len(sh.log) + 1 < 6 THEN 6
                    ELSE HeaderRows + Len(sh.log) + 1
        i == next_row - HeaderRows
    IN  IF "col_values" \in f \/ "log_update" \in f
        THEN [raised |-> FALSE,
              sh |-> [sh EXCEPT !.log = Append(@, row_data)], n |-> 1]
        ELSE [raised |-> FALSE,
              sh |-> [sh EXCEPT !.log =
                         IF i <= Len(@) THEN [@ EXCEPT ![i] = row_data]
                         ELSE Append(@, row_data)],
              n |-> 1]

\* "Force H2 Update" and the dashboard's H2: try: ... except: pass
UpdateH2(sh, ex, f) ==
    IF "sheet_read" \in f \/ "sheet_update" \in f THEN sh
    ELSE [sh EXCEPT !.H2 = <<get_balance(ex, "COIN", "balance_after" \in f)>>]

----------------------------------------------------------------------------
(* /webhook *)

\* Faulty variant of NeedsFallback: every signal reads the sheet
NeedsFallbackAlways(d2_cap) == TRUE

\* `if d2_cap == 0:`
NeedsFallback(d2_cap) == d2_cap = 0

\* Lines 255-312: the cache is read, open orders are cancelled, a cached
\* capital of 0 forces a read of D2, E2, H4, F2, and the order type is
\* chosen.  `bound` tells whether this left the local `sheet` bound.
ReadState(data, f) ==
    LET m0 == BOT_MEMORY
        fallback == NeedsFallback(m0.d2_cap)
        opened == fallback /\ "sheet_open" \notin f
        readOk == opened /\ "sheet_read" \notin f
        d2_cap == IF readOk THEN Get(sheet.D2, 0) ELSE m0.d2_cap
        e2_pct == IF readOk THEN Get(sheet.E2, DefaultPct) ELSE m0.e2_pct
        h4_cost == IF readOk THEN Get(sheet.H4, 0) ELSE m0.h4_cost
        f2_type == IF readOk THEN Get(sheet.F2, "MARKET") ELSE m0.f2_type
    IN  [data |-> data, f |-> f, side |-> data.side,
         ex |-> cancel_all_open_orders(exchange, f),
         bound |-> opened, readOk |-> readOk,
         d2_cap |-> d2_cap, e2_pct |-> e2_pct,
         mem |-> [m0 EXCEPT !.d2_cap = d2_cap, !.e2_pct = e2_pct,
                            !.h4_cost = h4_cost, !.f2_type = f2_type],
         target_type |-> TargetType(data, f2_type)]

\* float(data.get('limit_price', sent_price)) raises for 'Market'
BadPrice(c) == c.target_type = "LIMIT" /\ c.data.price = <<>>

\* final_limit_price = round_step_size(raw_price, tick_size)
FinalLimitPrice(c) ==
    round_step_size(Get(c.data.price, 0), get_price_tick_size(c.ex, c.f))

NoSizing == [raised |-> FALSE, place |-> FALSE, status |-> "Pending",
             kind |-> "none", params |-> NoParams, bal |-> 0, step |-> "",
             req_pct |-> 0, amt0 |-> 0, amt |-> 0]

\* Lines 315-349 without the new_order call: the BUY amount, the order's
\* parameters and the decision to place it.
BuySizing(c) ==
    LET bal == get_balance(c.ex, "USDT", "balance" \in c.f)
        req_pct == ReqPct(c.data, c.e2_pct)
        amt0 == Amt(EffCap(c.d2_cap, bal), req_pct)
        base == [NoSizing EXCEPT !.bal = bal, !.req_pct = req_pct,
                                 !.amt0 = amt0, !.amt = amt0]
    IN  IF c.target_type = "LIMIT"
        THEN IF BadPrice(c) \/ FinalLimitPrice(c) = 0
             THEN [base EXCEPT !.raised = TRUE]
             ELSE LET step == get_symbol_step_size(c.ex, c.f)
                      qty_coins ==
                          RoundStepRatio(amt0, FinalLimitPrice(c), step)
                      amt == qty_coins * FinalLimitPrice(c)
                  IN  [base EXCEPT
                          !.amt = amt, !.step = step,
                          !.place = AboveMinNotional(amt),
                          !.params = [side |-> "BUY", type |-> "LIMIT",
                                      quoteOrderQty |-> <<>>,
                                      quantity |-> <<qty_coins>>,
                                      price |-> <<FinalLimitPrice(c)>>]]
        ELSE [base EXCEPT
                 !.place = AboveMinNotional(amt0),
                 !.params = [side |-> "BUY", type |-> c.target_type,
                             quoteOrderQty |-> <<Round2(amt0)>>,
                             quantity |-> <<>>, price |-> <<>>]]

\* Lines 351-376 without the new_order call: the SELL quantity.
SellSizing(c) ==
    LET coin_bal == get_balance(c.ex, "COIN", "balance" \in c.f)
        step == get_symbol_step_size(c.ex, c.f)
        base == [NoSizing EXCEPT !.bal = coin_bal]
    IN  IF coin_bal = 0
        THEN [base EXCEPT !.status = "Skipped: No Coins", !.kind = "Skipped"]
        ELSE IF BadPrice(c)
        THEN [base EXCEPT !.raised = TRUE, !.step = step]
        ELSE [base EXCEPT
                 !.place = TRUE, !.step = step,
                 !.params = [side |-> "SELL", type |-> c.target_type,
                             quoteOrderQty |-> <<>>,
                             quantity |-> <<SellQty(coin_bal, step)>>,
                             price |-> IF c.target_type = "LIMIT"
                                       THEN <<FinalLimitPrice(c)>>
                                       ELSE <<>>]]

Sizing(c) == IF c.side = "BUY" THEN BuySizing(c) ELSE SellSizing(c)

\* Lines 343-349 and 375-376: the order is placed, or the signal skipped.
\* o is the outcome of new_order for the sized parameters.
Placed(s, o) ==
    IF s.raised THEN [s EXCEPT !.params = NoParams]
    ELSE IF s.place
    THEN [s EXCEPT !.raised = o.raised,
                   !.status = IF o.raised THEN "Pending"
                              ELSE IF s.params.side = "BUY"
                              THEN "Filled/Open" ELSE "Filled",
                   !.kind = o.resp.kind]
    ELSE IF s.params.side = "BUY"
    THEN [s EXCEPT !.status = "Skipped: Amt", !.kind = "skipped",
                   !.params = NoParams]
    ELSE s

\* The signal's part of the history record.
History(c, z) ==
    [Quiet("webhook") EXCEPT
        !.side = c.side, !.pct = c.data.pct,
        !.storeReads = IF c.readOk THEN 1 ELSE 0,
        !.prevReads = IF last.op = "webhook" THEN last.storeReads ELSE 0,
        !.d2_cap = c.d2_cap, !.e2_pct = c.e2_pct,
        !.sized = ~(z.raised /\ ~z.place),
        !.bal = z.bal, !.step = z.step, !.req_pct = z.req_pct,
        !.amt0 = z.amt0, !.amt = z.amt, !.target_type = c.target_type,
        !.placed = IF z.place THEN 1 ELSE 0, !.params = z.params,
        !.status = z.status]

\* Lines 436-444: except Exception.  An ERROR row is written when `sheet`
\* is bound; the response is a 500.
Caught(c, z, ex, mem, sh, bound, fill) ==
    LET e == write_log_row(sh, [side |-> "ERROR", status |-> "exception",
                                cap |-> 0], c.f)
    IN  [mem |-> mem, ex |-> ex,
         sheet |-> IF bound THEN e.sh ELSE sh,
         fill |-> fill,
         hist |-> [History(c, z) EXCEPT
                      !.code = 500, !.resp_status = "error",
                      !.logged = IF bound THEN e.n ELSE 0]]

NoFill == [filled |-> FALSE, side |-> "", cur_cap |-> 0, cur_cost |-> 0,
           v |-> 0, q |-> 0, r |-> 0, nfills |-> 0, d2 |-> 0, h4 |-> 0]

\* Lines 381-401: the executed value and quantity are taken from the
\* response, and a status that starts with "Filled" runs
\* update_compounding_after_trade on the cache.
Compounding(c, z, ex, resp) ==
    LET usdt_value ==
            IF resp.cummulativeQuoteQty # <<>>
            THEN resp.cummulativeQuoteQty[1]
            ELSE IF resp.origQty # <<>> /\ resp.price # <<>>
            THEN Quote(resp.origQty[1], resp.price[1])
            ELSE 0
        exec_qty == IF resp.fills # <<>> THEN resp.fills[1]
                    ELSE Get(resp.origQty, 0)
        rem_bal == IF c.side = "SELL"
                   THEN get_balance(ex, "COIN", "balance_after" \in c.f)
                   ELSE 0
        ns == NewState(c.mem.d2_cap, c.mem.h4_cost, c.side, usdt_value,
                       exec_qty, rem_bal)
    IN  IF z.status \in {"Filled", "Filled/Open"}
        THEN [filled |-> TRUE, side |-> c.side, cur_cap |-> c.mem.d2_cap,
              cur_cost |-> c.mem.h4_cost, v |-> usdt_value, q |-> exec_qty,
              r |-> rem_bal, nfills |-> Len(resp.fills),
              d2 |-> ns.d2, h4 |-> ns.h4]
        ELSE [NoFill EXCEPT !.d2 = c.mem.d2_cap, !.h4 = c.mem.h4_cost]

\* Lines 403-434: the log row, the H2 cell and the response.  The `try:`
\* of line 410 has no except clause of its own: a failure of its
\* sheet.col_values(1) is caught by the handler's except Exception.
Logged(c, z, ex, k) ==
    LET mem2 == [c.mem EXCEPT !.d2_cap = k.d2, !.h4_cost = k.h4]
        sh2 == IF k.filled THEN UpdateSheetState(sheet, k.d2, k.h4, c.f)
               ELSE sheet
        final_cap == IF k.filled THEN k.d2 ELSE c.d2_cap
        w == write_log_row(sh2, [side |-> c.side, status |-> z.status,
                                 cap |-> final_cap], c.f)
    IN  IF "col_values" \in c.f
        THEN Caught(c, z, ex, mem2, sh2, TRUE, k)
        ELSE [mem |-> mem2, ex |-> ex,
              sheet |-> UpdateH2(w.sh, ex, c.f),
              fill |-> k,
              hist |-> [History(c, z) EXCEPT
                           !.resp_status = z.kind, !.logged = w.n]]

\* Lines 378-444 for a sized signal z and the outcome o of its order.
Settled(c, z, o) ==
    IF z.raised \/ "sheet_open" \in c.f
    THEN Caught(c, z, o.ex, c.mem, sheet, c.bound, NoFill)
    ELSE Logged(c, z, o.ex, Compounding(c, z, o.ex, o.resp))

Ordered(c, s) ==
    IF s.place /\ ~s.raised THEN new_order(c.ex, s.params, c.f)
    ELSE [raised |-> s.raised, ex |-> c.ex, resp |-> NoResp]

Handled(c, s, o) == Settled(c, Placed(s, o), o)

Sized(c, s) == Handled(c, s, Ordered(c, s))

\* The whole handler for a signal with the right passphrase.
WebhookOutcome(data, f) ==
    Sized(ReadState(data, f), Sizing(ReadState(data, f)))

\* The history of consecutive BUY fills, after one more operation.
NextRun(k) ==
    IF k.filled /\ k.side = "BUY"
    THEN IF run.active
         THEN [run EXCEPT !.sum = @ + k.v, !.n = @ + 1, !.fills = @ + 1]
         ELSE [active |-> TRUE, c0 |-> k.cur_cost, cap0 |-> k.cur_cap,
               sum |-> k.v, n |-> 1, fills |-> run.fills + 1]
    ELSE [NoRun EXCEPT !.fills = run.fills + (IF k.filled THEN 1 ELSE 0)]

Apply(out) ==
    /\ BOT_MEMORY' = out.mem
    /\ sheet' = out.sheet
    /\ exchange' = out.ex
    /\ run' = NextRun(out.fill)
    /\ last' = [out.hist EXCEPT
                   !.filled = out.fill.filled, !.cur_cap = out.fill.cur_cap,
                   !.cur_cost = out.fill.cur_cost, !.v = out.fill.v,
                   !.q = out.fill.q, !.r = out.fill.r,
                   !.nfills = out.fill.nfills]

\* webhook() with the right passphrase: one signal, handled start to end.
Webhook(data, f) ==
    /\ nreq < MaxRequests
    /\ nreq' = nreq + 1
    /\ UNCHANGED <<thread, calls, rounding>>
    /\ Apply(WebhookOutcome(data, f))

\* A faulty rejection: the open orders are cancelled before the passphrase
\* is compared.
WebhookUnauthorizedCancels(passphrase) ==
    /\ nreq < MaxRequests
    /\ nreq' = nreq + 1
    /\ exchange' = cancel_all_open_orders(exchange, {})
    /\ run' = NextRun(NoFill)
    /\ last' = [Quiet("webhook") EXCEPT !.code = 401,
                   !.passphrase = passphrase,
                   !.resp_status = "Unauthorized"]
    /\ UNCHANGED <<BOT_MEMORY, sheet, thread, calls, rounding>>

\* webhook() with a wrong passphrase: 401 before anything else.
WebhookUnauthorized(passphrase) ==
    /\ nreq < MaxRequests
    /\ nreq' = nreq + 1
    /\ run' = NextRun(NoFill)
    /\ last' = [Quiet("webhook") EXCEPT !.code = 401,
                   !.passphrase = passphrase,
                   !.resp_status = "Unauthorized"]
    /\ UNCHANGED <<BOT_MEMORY, sheet, exchange, thread, calls, rounding>>

----------------------------------------------------------------------------
(* Background thread *)

\* init_memory_state: H4 is read once, when the thread starts.
InitMemoryState(f) ==
    /\ ~thread.booted
    /\ thread' = [thread EXCEPT !.booted = TRUE]
    /\ BOT_MEMORY' =
           IF "sheet_open" \in f \/ "sheet_read" \in f THEN BOT_MEMORY
           ELSE [BOT_MEMORY EXCEPT !.h4_cost = Get(sheet.H4, 0)]
    /\ run' = NextRun(NoFill)
    /\ last' = Quiet("init_memory_state")
    /\ UNCHANGED <<sheet, exchange, nreq, calls, rounding>>

\* One iteration of the while loop of background_sync_loop, the tick-th for
\* tick < limit.  The name `sheet` is bound neither in that function nor in
\* the module, so sheet.batch_get raises NameError in every iteration: the
\* except branch records the failure, and the dashboard block fails the same
\* way at its first sheet.update, after reading the wallet balance.  The
\* loop then sleeps the fixed period; thread.fails counts the iterations
\* whose settings read failed in a row, thread.sleep is the sleep that
\* followed the last one.
Iteration(limit) ==
    /\ thread.booted
    /\ thread.tick < limit
    /\ thread' = [thread EXCEPT !.tick = @ + 1, !.fails = @ + 1,
                                !.sleep = SyncPeriod]
    /\ BOT_MEMORY' = [BOT_MEMORY EXCEPT !.last_error = "Sync Failed"]
    /\ run' = NextRun(NoFill)
    /\ last' = Quiet("background_sync_loop")
    /\ UNCHANGED <<sheet, exchange, nreq, calls, rounding>>

\* A faulty iteration: it also loads the cost basis from cell H4.
BackgroundIterationSyncsCost ==
    /\ thread.booted
    /\ thread.tick < MaxTicks
    /\ thread' = [thread EXCEPT !.tick = @ + 1, !.fails = @ + 1,
                                !.sleep = SyncPeriod]
    /\ BOT_MEMORY' = [BOT_MEMORY EXCEPT !.last_error = "Sync Failed",
                                        !.h4_cost = Get(sheet.H4, 0)]
    /\ run' = NextRun(NoFill)
    /\ last' = Quiet("background_sync_loop")
    /\ UNCHANGED <<sheet, exchange, nreq, calls, rounding>>

BackgroundIteration == Iteration(MaxTicks)

----------------------------------------------------------------------------
(* /cli *)

\* method == "get_capital_status"
CliCapitalStatus(f) ==
    /\ nreq < MaxRequests
    /\ nreq' = nreq + 1
    /\ IF "sheet_open" \in f \/ "sheet_read" \in f
       THEN /\ UNCHANGED BOT_MEMORY
            /\ last' = [Quiet("get_capital_status") EXCEPT !.code = 500,
                           !.resp_status = "error"]
       ELSE /\ BOT_MEMORY' = [BOT_MEMORY EXCEPT
                                 !.d2_cap = Get(sheet.D2, 0),
                                 !.e2_pct = Get(sheet.E2, DefaultPct)]
            /\ last' = [Quiet("get_capital_status") EXCEPT !.storeReads = 1]
    /\ run' = NextRun(NoFill)
    /\ UNCHANGED <<sheet, exchange, thread, calls, rounding>>

\* method == "debug_memory", a method the client does not have (400), or a
\* client method proxied to the exchange: cancel_open_orders stands for the
\* methods that change the account, the others only read it.
CliOther(method) ==
    /\ nreq < MaxRequests
    /\ nreq' = nreq + 1
    /\ exchange' = IF method = "cancel_open_orders" /\ exchange.open # <<>>
                   THEN CancelOpen(exchange) ELSE exchange
    /\ run' = NextRun(NoFill)
    /\ last' = [Quiet(method) EXCEPT
                   !.code = IF method = "no_such_method" THEN 400 ELSE 200]
    /\ UNCHANGED <<BOT_MEMORY, sheet, thread, calls, rounding>>

\* cli() with a wrong passphrase
CliUnauthorized(passphrase) ==
    /\ nreq < MaxRequests
    /\ nreq' = nreq + 1
    /\ run' = NextRun(NoFill)
    /\ last' = [Quiet("cli") EXCEPT !.code = 401,
                   !.passphrase = passphrase,
                   !.resp_status = "Unauthorized"]
    /\ UNCHANGED <<BOT_MEMORY, sheet, exchange, thread, calls, rounding>>

----------------------------------------------------------------------------

\* A request runs its handler when its passphrase passes the comparison and
\* is rejected otherwise.
Next ==
    \/ \E p \in SentPassphrases, data \in Signals, f \in Scenarios :
          Authorized(p) /\ Webhook(data, f)
    \/ \E p \in SentPassphrases : ~Authorized(p) /\ WebhookUnauthorized(p)
    \/ \E f \in SheetScenarios : InitMemoryState(f)
    \/ BackgroundIteration
    \/ \E p \in SentPassphrases, f \in SheetScenarios :
          Authorized(p) /\ CliCapitalStatus(f)
    \/ \E p \in SentPassphrases,
          method \in {"debug_memory", "account", "cancel_open_orders",
                      "no_such_method"} : Authorized(p) /\ CliOther(method)
    \/ \E p \in SentPassphrases : ~Authorized(p) /\ CliUnauthorized(p)

Spec == Init /\ [][Next]_vars

----------------------------------------------------------------------------
(* The refresher over several iterations *)

(* The thread of background_sync_loop beside the /cli endpoint, which      *)
(* reloads the cache and shows last_error, followed for MaxLoops           *)
(* iterations.                                                             *)

RefresherIteration == Iteration(MaxLoops)

RefresherNext ==
    \/ \E f \in SheetScenarios : InitMemoryState(f)
    \/ RefresherIteration
    \/ \E p \in SentPassphrases, f \in SheetScenarios :
          Authorized(p) /\ CliCapitalStatus(f)
    \/ \E p \in SentPassphrases,
          method \in {"debug_memory", "account", "cancel_open_orders",
                      "no_such_method"} : Authorized(p) /\ CliOther(method)
    \/ \E p \in SentPassphrases : ~Authorized(p) /\ CliUnauthorized(p)

RefresherSpec == Init /\ [][RefresherNext]_vars

----------------------------------------------------------------------------
(* update_compounding_after_trade, statement by statement *)

(* In Spec a handler runs from start to end without interruption.  The     *)
(* specification below follows update_compounding_after_trade alone, one   *)
(* step per access to the cache, the exchange or the sheet, for handlers   *)
(* whose calls overlap; its arguments are drawn from Fills, which includes *)
(* a SELL for which nothing was executed.                                  *)

\* The arguments side, usdt_value, coin_qty of webhook's call at line 401.
Fills ==
    {[side |-> "BUY", usdt_value |-> 4980, coin_qty |-> 83],
     [side |-> "SELL", usdt_value |-> 1920, coin_qty |-> 32],
     [side |-> "SELL", usdt_value |-> 0, coin_qty |-> 0]}

\* The cache is populated, the sheet agrees with it, and the account holds
\* no coins or one step of them after the fills.  run keeps the cost basis
\* and the capital the handlers start from.
EngineInit ==
    /\ \E h4 \in {0, 1650}, coin \in {0, 1} :
        /\ BOT_MEMORY = [d2_cap |-> 10000, e2_pct |-> 500, h4_cost |-> h4,
                         f2_type |-> "MARKET", last_error |-> "unset"]
        /\ sheet = [D2 |-> <<10000>>, E2 |-> <<500>>, F2 |-> <<"MARKET">>,
                    H4 |-> <<h4>>, H3 |-> <<10000>>, H2 |-> <<coin>>,
                    log |-> <<>>]
        /\ exchange = [usdt |-> 15000, coin |-> coin, open |-> <<>>,
                       price |-> 60000, step |-> "0.00001", tick |-> "10"]
        /\ run = [NoRun EXCEPT !.c0 = h4, !.cap0 = 10000]
    /\ thread = [booted |-> TRUE, tick |-> 0, fails |-> 0, sleep |-> 0]
    /\ nreq = 0
    /\ calls = [h \in Handlers |-> NoCall]
    /\ rounding = NoRounding
    /\ last = StartRecord

\* Line 401: a handler whose order counted as filled enters the function.
CallUpdate(h, fill) ==
    /\ calls[h].pc = "idle"
    /\ calls' = [calls EXCEPT ![h] =
                    [NoCall EXCEPT !.pc = "read", !.side = fill.side,
                                   !.usdt_value = fill.usdt_value,
                                   !.coin_qty = fill.coin_qty]]
    /\ UNCHANGED <<BOT_MEMORY, sheet, exchange, thread, nreq, rounding,
                   run, last>>

\* Lines 109-113: current_cost and current_cap are read from the cache.
ReadCache(h) ==
    /\ calls[h].pc = "read"
    /\ calls' = [calls EXCEPT ![h] =
                    [@ EXCEPT !.current_cost = BOT_MEMORY.h4_cost,
                              !.current_cap = BOT_MEMORY.d2_cap,
                              !.pc = IF calls[h].side = "SELL" THEN "balance"
                                     ELSE "write"]]
    /\ UNCHANGED <<BOT_MEMORY, sheet, exchange, thread, nreq, rounding,
                   run, last>>

\* Lines 124-125: rem_bal = get_balance(base), for a SELL.
ReadBalance(h) ==
    /\ calls[h].pc = "balance"
    /\ calls' = [calls EXCEPT ![h] =
                    [@ EXCEPT !.rem_bal = get_balance(exchange, "COIN", FALSE),
                              !.pc = "write"]]
    /\ UNCHANGED <<BOT_MEMORY, sheet, exchange, thread, nreq, rounding,
                   run, last>>

\* Lines 115-147: the new values are computed from the values read and
\* written to the cache.
WriteCache(h) ==
    LET c == calls[h]
        ns == NewState(c.current_cap, c.current_cost, c.side, c.usdt_value,
                       c.coin_qty, c.rem_bal)
    IN  /\ c.pc = "write"
        /\ BOT_MEMORY' = [BOT_MEMORY EXCEPT !.d2_cap = ns.d2,
                                            !.h4_cost = ns.h4]
        /\ calls' = [calls EXCEPT ![h] =
                        [@ EXCEPT !.new_d2 = ns.d2, !.new_h4 = ns.h4,
                                  !.pc = "D2"]]
        /\ UNCHANGED <<sheet, exchange, thread, nreq, rounding,
                   run, last>>

\* Lines 152-154: sheet.update('D2'), ('H3'), ('H4'), one call each.
UpdateCell(h) ==
    LET c == calls[h]
    IN  /\ c.pc \in {"D2", "H3", "H4"}
        /\ sheet' = IF c.pc = "D2" THEN [sheet EXCEPT !.D2 = <<c.new_d2>>]
                    ELSE IF c.pc = "H3"
                    THEN [sheet EXCEPT !.H3 = <<c.new_d2>>]
                    ELSE [sheet EXCEPT !.H4 = <<c.new_h4>>]
        /\ calls' = [calls EXCEPT ![h] =
                        [@ EXCEPT !.pc = IF c.pc = "D2" THEN "H3"
                                         ELSE IF c.pc = "H3" THEN "H4"
                                         ELSE "done"]]
        /\ UNCHANGED <<BOT_MEMORY, exchange, thread, nreq, rounding,
                   run, last>>

\* Line 155: a sheet.update that raises ends the block (except: pass).
UpdateRaises(h) ==
    /\ calls[h].pc \in {"D2", "H3", "H4"}
    /\ calls' = [calls EXCEPT ![h] =
                    [@ EXCEPT !.pc = "done", !.raised = TRUE]]
    /\ UNCHANGED <<BOT_MEMORY, sheet, exchange, thread, nreq, rounding,
                   run, last>>

EngineNext ==
    \/ \E h \in Handlers, fill \in Fills : CallUpdate(h, fill)
    \/ \E h \in Handlers : ReadCache(h)
    \/ \E h \in Handlers : ReadBalance(h)
    \/ \E h \in Handlers : WriteCache(h)
    \/ \E h \in Handlers : UpdateCell(h)
    \/ \E h \in Handlers : UpdateRaises(h)

EngineSpec == EngineInit /\ [][EngineNext]_vars

----------------------------------------------------------------------------
(* round_step_size on its own *)

(* One call of round_step_size with a step from StepSizes and a quantity of  *)
(* num quarter steps, num in 0 .. 4 * MaxMultiple + 3: every multiple of     *)
(* the step up to MaxMultiple and three quantities between two multiples.    *)

StepSizes == {"1", "0.1", "0.00001", "0", "-1"}

QuantizeInit ==
    /\ BOT_MEMORY = [d2_cap |-> 0, e2_pct |-> DefaultPct, h4_cost |-> 0,
                     f2_type |-> "MARKET", last_error |-> "unset"]
    /\ sheet = [D2 |-> <<>>, E2 |-> <<>>, F2 |-> <<>>, H4 |-> <<>>,
                H3 |-> <<>>, H2 |-> <<>>, log |-> <<>>]
    /\ exchange = [usdt |-> 0, coin |-> 0, open |-> <<>>, price |-> 60000,
                   step |-> "0.00001", tick |-> "10"]
    /\ thread = [booted |-> FALSE, tick |-> 0, fails |-> 0, sleep |-> 0]
    /\ nreq = 0
    /\ calls = [h \in Handlers |-> NoCall]
    /\ \E step_size \in StepSizes, num \in 0..(4 * MaxMultiple + 3) :
          rounding = [NoRounding EXCEPT !.pc = "called",
                                        !.step_size = step_size,
                                        !.num = num]
    /\ run = NoRun
    /\ last = StartRecord

\* Lines 102-103 with a step math.log accepts.
RoundReturns ==
    /\ rounding.pc = "called"
    /\ Precision(rounding.step_size) # <<>>
    /\ rounding' = [rounding EXCEPT
                       !.pc = "returned",
                       !.result = RoundStepRatio(rounding.num, 4,
                                                 rounding.step_size)]
    /\ UNCHANGED <<BOT_MEMORY, sheet, exchange, thread, nreq, calls, run,
                   last>>

\* Line 102 raising ValueError.
RoundRaises ==
    /\ rounding.pc = "called"
    /\ Precision(rounding.step_size) = <<>>
    /\ rounding' = [rounding EXCEPT !.pc = "raised"]
    /\ UNCHANGED <<BOT_MEMORY, sheet, exchange, thread, nreq, calls, run,
                   last>>

QuantizeNext == RoundReturns \/ RoundRaises

QuantizeSpec == QuantizeInit /\ [][QuantizeNext]_vars

----------------------------------------------------------------------------
(* The trade log written by overlapping handlers *)

(* Lines 403-422 of webhook and write_log_row, one statement at a time, by   *)
(* handlers that run at once.  calls[h] follows handler h: its row, the       *)
(* next_row it computed and the sheet row it wrote (0: none yet).             *)

\* The rows of a filled BUY, a filled SELL and a failed signal.
LogRows ==
    {[side |-> "BUY", status |-> "Filled", cap |-> 10000],
     [side |-> "SELL", status |-> "Filled", cap |-> 10270],
     [side |-> "ERROR", status |-> "exception", cap |-> 0]}

\* No log write is being followed.
NoWrite == [pc |-> "idle", row_data |-> <<>>, next_row |-> 0, written |-> 0]

\* len(col_a) + 1, never above row 6: lines 243-244 and 415-419.
NextRow(sh) ==
    IF HeaderRows + Len(sh.log) + 1 < 6 THEN 6
    ELSE HeaderRows + Len(sh.log) + 1

\* The log is empty or holds the row of an earlier signal.
LogInit ==
    /\ BOT_MEMORY = [d2_cap |-> 10000, e2_pct |-> 500, h4_cost |-> 0,
                     f2_type |-> "MARKET", last_error |-> "None"]
    /\ \E log \in {<<>>, <<[side |-> "BUY", status |-> "Skipped: Amt",
                            cap |-> 10000]>>} :
          sheet = [D2 |-> <<10000>>, E2 |-> <<500>>, F2 |-> <<"MARKET">>,
                   H4 |-> <<0>>, H3 |-> <<10000>>, H2 |-> <<0>>,
                   log |-> log]
    /\ exchange = [usdt |-> 15000, coin |-> 0, open |-> <<>>, price |-> 60000,
                   step |-> "0.00001", tick |-> "10"]
    /\ thread = [booted |-> TRUE, tick |-> 0, fails |-> 0, sleep |-> 0]
    /\ nreq = 0
    /\ calls = [h \in Handlers |-> NoWrite]
    /\ rounding = NoRounding
    /\ run = NoRun
    /\ last = StartRecord

\* Line 407: handler h has built its row.
BuildRow(h, row_data) ==
    /\ calls[h].pc = "idle"
    /\ calls' = [calls EXCEPT ![h] =
                    [NoWrite EXCEPT !.pc = "next_row",
                                    !.row_data = <<row_data>>]]
    /\ UNCHANGED <<BOT_MEMORY, sheet, exchange, thread, nreq, rounding,
                   run, last>>

\* Lines 410-422: webhook reads column A and computes a next_row of its
\* own, then calls write_log_row with the row alone.
WebhookNextRow(h) ==
    /\ calls[h].pc = "next_row"
    /\ calls' = [calls EXCEPT ![h] = [@ EXCEPT !.pc = "col_values",
                                               !.next_row = NextRow(sheet)]]
    /\ UNCHANGED <<BOT_MEMORY, sheet, exchange, thread, nreq, rounding,
                   run, last>>

\* Lines 242-244: write_log_row reads column A and computes next_row.
ColValues(h) ==
    /\ calls[h].pc = "col_values"
    /\ calls' = [calls EXCEPT ![h] = [@ EXCEPT !.pc = "update",
                                               !.next_row = NextRow(sheet)]]
    /\ UNCHANGED <<BOT_MEMORY, sheet, exchange, thread, nreq, rounding,
                   run, last>>

\* Line 245: sheet.update(A{next_row}:J{next_row}) replaces whatever the
\* row holds.
SheetUpdate(h) ==
    /\ calls[h].pc = "update"
    /\ LET i == calls[h].next_row - HeaderRows
       IN  sheet' = [sheet EXCEPT !.log =
                        IF i <= Len(@)
                        THEN [@ EXCEPT ![i] = calls[h].row_data[1]]
                        ELSE Append(@, calls[h].row_data[1])]
    /\ calls' = [calls EXCEPT ![h] =
                    [@ EXCEPT !.pc = "logged",
                              !.written = calls[h].next_row]]
    /\ UNCHANGED <<BOT_MEMORY, exchange, thread, nreq, rounding, run, last>>

\* Lines 242-247: col_values or sheet.update raises and the exception is
\* caught.
LogWriteRaises(h) ==
    /\ calls[h].pc \in {"col_values", "update"}
    /\ calls' = [calls EXCEPT ![h] = [@ EXCEPT !.pc = "append_row"]]
    /\ UNCHANGED <<BOT_MEMORY, sheet, exchange, thread, nreq, rounding,
                   run, last>>

\* Line 248: sheet.append_row puts the row after the last row.
AppendRow(h) ==
    /\ calls[h].pc = "append_row"
    /\ sheet' = [sheet EXCEPT !.log = Append(@, calls[h].row_data[1])]
    /\ calls' = [calls EXCEPT ![h] =
                    [@ EXCEPT !.pc = "logged",
                              !.written = HeaderRows + Len(sheet.log) + 1]]
    /\ UNCHANGED <<BOT_MEMORY, exchange, thread, nreq, rounding, run, last>>

LogNext ==
    \/ \E h \in Handlers, row_data \in LogRows : BuildRow(h, row_data)
    \/ \E h \in Handlers : WebhookNextRow(h)
    \/ \E h \in Handlers : ColValues(h)
    \/ \E h \in Handlers : SheetUpdate(h)
    \/ \E h \in Handlers : LogWriteRaises(h)
    \/ \E h \in Handlers : AppendRow(h)

LogSpec == LogInit /\ [][LogNext]_vars

----------------------------------------------------------------------------
(* Properties of the Compounding Engine *)

\* The last operation was a signal whose order counted as filled, so that
\* update_compounding_after_trade ran with the values kept in `last`.
BuyFill == last.op = "webhook" /\ last.filled /\ last.side = "BUY"

SellFill == last.op = "webhook" /\ last.filled /\ last.side = "SELL"

\* C1: after every sequence of BUY fills handled one after another, with
\* executed quote values v1..vn and starting from cost basis c0, the cached
\* cost basis is c0 + v1 + ... + vn and the cached capital is the capital
\* the first of them read.
C1_BuyFillsAddUp ==
    run.active =>
        /\ BOT_MEMORY.h4_cost = run.c0 + run.sum
        /\ BOT_MEMORY.d2_cap = run.cap0

\* Two BUY fills in a row, on top of a cost basis that was not zero.
C1_Witness ==
    /\ BuyFill
    /\ run.active /\ run.n >= 2
    /\ run.c0 > 0 /\ run.sum > last.v /\ last.v > 0

\* C2: a SELL fill with quote value v, quantity q and remaining balance r,
\* r + q > 0, leaves capital = capital + v - costBasis*q/(r+q); without dust
\* cleanup it leaves costBasis = costBasis - costBasis*q/(r+q); and with
\* r = 0 it leaves costBasis = 0 and capital = capital + (v - costBasis).
C2_SellFill ==
    SellFill /\ last.r + last.q > 0 =>
        /\ BOT_MEMORY.d2_cap =
               last.cur_cap + last.v
                   - (last.cur_cost * last.q) \div (last.r + last.q)
        /\ last.r * 100 >= last.q * DustPerCent =>
               BOT_MEMORY.h4_cost =
                   last.cur_cost
                       - (last.cur_cost * last.q) \div (last.r + last.q)
        /\ last.r = 0 =>
               /\ BOT_MEMORY.h4_cost = 0
               /\ BOT_MEMORY.d2_cap = last.cur_cap + (last.v - last.cur_cost)

\* A SELL fill of a part of the coins held, above the dust threshold.
C2_Witness ==
    /\ SellFill
    /\ last.q > 0 /\ last.r > 0 /\ last.v > 0 /\ last.cur_cost > 0
    /\ last.r * 100 >= last.q * DustPerCent
    /\ BOT_MEMORY.h4_cost > 0
    /\ BOT_MEMORY.d2_cap # last.cur_cap

\* C3: a SELL fill that leaves a remaining balance below 0.01 * q ends with
\* costBasis = 0, whatever costBasis - costOfSoldPortion is, and with
\* capital = capital + (v - costOfSoldPortion).
C3_DustCleanup ==
    SellFill /\ last.r * 100 < last.q =>
        /\ BOT_MEMORY.h4_cost = 0
        /\ BOT_MEMORY.d2_cap =
               last.cur_cap + last.v
                   - (last.cur_cost * last.q) \div (last.r + last.q)

\* A SELL fill that leaves dust behind while a part of the cost basis is
\* still attributed to it.
C3_Witness ==
    /\ SellFill
    /\ last.r > 0 /\ last.r * 100 < last.q
    /\ last.cur_cost
           - (last.cur_cost * last.q) \div (last.r + last.q) > 0
    /\ BOT_MEMORY.h4_cost = 0

\* C4: the cached cost basis changes only through a BUY fill or a SELL
\* fill; startup recovery may set it before the first fill, and no other
\* operation (refresh, recovery after the first fill, capital == 0 fallback
\* read, CLI status call, skipped or failed signal) changes it.
C4_CostBasisOnlyByFills ==
    BOT_MEMORY.h4_cost # last.pre.h4_cost =>
        \/ last.op = "webhook" /\ last.filled
               /\ last.cur_cost = last.pre.h4_cost
        \/ last.op = "init_memory_state" /\ run.fills = 0

\* The capital the last operation worked from: the cached capital, or the
\* D2 cell when the operation reloaded it.
CapitalRead ==
    IF last.storeReads = 1 THEN Get(last.preD2, 0) ELSE last.pre.d2_cap

\* C5, as stated: the cached capital changes only through a SELL fill's
\* realized profit or loss; BUY fills, skipped signals, refresh iterations
\* and CLI calls leave it unchanged.
C5_CapitalOnlyBySellFill ==
    BOT_MEMORY.d2_cap # last.pre.d2_cap =>
        /\ SellFill
        /\ BOT_MEMORY.d2_cap =
               last.pre.d2_cap + last.v
                   - (last.cur_cost * last.q) \div (last.r + last.q)

\* C5, amended: the cached capital changes only by being reloaded from the
\* D2 cell (the capital == 0 fallback read of a signal, the CLI
\* get_capital_status call) and, after that, through a SELL fill's realized
\* profit or loss; BUY fills, skipped and failed signals, refresh
\* iterations, startup recovery and the other CLI calls leave it unchanged.
C5_CapitalBySellFillOrReload ==
    /\ last.storeReads = 1 =>
           \/ last.op = "webhook" /\ last.pre.d2_cap = 0
           \/ last.op = "get_capital_status"
    /\ BOT_MEMORY.d2_cap =
           IF SellFill /\ last.r + last.q > 0
           THEN CapitalRead + last.v
                    - (last.cur_cost * last.q) \div (last.r + last.q)
           ELSE CapitalRead

\* A SELL fill that realized a profit on a capital that had been loaded
\* by an earlier operation.
C5_Witness ==
    /\ SellFill
    /\ last.storeReads = 0
    /\ last.pre.d2_cap > 0
    /\ BOT_MEMORY.d2_cap > last.pre.d2_cap

\* C6: the cached cost basis is never negative.
C6_CostBasisNonNegative == BOT_MEMORY.h4_cost >= 0

\* A SELL fill, in the request that also reloaded the cost basis from H4,
\* that left a part of the cost basis in place.
C6_Witness ==
    /\ SellFill
    /\ last.storeReads = 1
    /\ last.q > 0 /\ last.r > 0
    /\ BOT_MEMORY.h4_cost > 0
    /\ BOT_MEMORY.h4_cost < last.cur_cost

----------------------------------------------------------------------------
(* Properties of the sizing *)

\* The last operation was a signal that got as far as sizing its order.
SizedBuy == last.op = "webhook" /\ last.side = "BUY" /\ last.sized

SizedSell == last.op = "webhook" /\ last.side = "SELL" /\ last.sized

\* C7: for every BUY signal the amount is min(capital, wallet balance) *
\* requestedPercent / 100, where requestedPercent is the signal's override
\* when present and the cached reinvest percent otherwise; the capital and
\* the percent are the cached ones as the signal found or reloaded them,
\* and a MARKET order asks for that amount, rounded to cents.
C7_BuySizing ==
    SizedBuy =>
        /\ last.d2_cap = CapitalRead
        /\ last.e2_pct = IF last.storeReads = 1
                         THEN Get(last.preE2, DefaultPct)
                         ELSE last.pre.e2_pct
        /\ last.amt0 =
               (IF last.d2_cap <= last.bal THEN last.d2_cap ELSE last.bal)
                   * (IF last.pct # <<>> THEN last.pct[1] ELSE last.e2_pct)
        /\ last.placed = 1 /\ last.target_type = "MARKET" =>
               last.params.quoteOrderQty
                   = <<(last.amt0 + 500) \div 1000>>
                 \/ /\ last.amt0 % 1000 = 500
                    /\ last.params.quoteOrderQty = <<last.amt0 \div 1000>>

\* A BUY signal without override, sized from a wallet balance that is
\* smaller than the cached capital, and placed.
C7_Witness ==
    /\ SizedBuy
    /\ last.pct = <<>>
    /\ last.bal > 0 /\ last.bal < last.d2_cap
    /\ last.placed = 1 /\ last.target_type = "MARKET"
    /\ last.amt0 = last.bal * last.e2_pct

\* C8: a BUY signal whose amount is <= 10 places no order, is answered
\* with status "Skipped" (in either case of the first letter), leaves
\* capital and cost basis as the signal read them, and records one log row
\* whose status carries the skip reason.
C8_SkippedBuy ==
    SizedBuy /\ last.amt <= MinNotional * 100000 =>
        /\ last.placed = 0
        /\ ~last.filled
        /\ last.resp_status \in {"Skipped", "skipped"}
        /\ last.logged = 1
        /\ sheet.log # <<>>
        /\ sheet.log[Len(sheet.log)].side = "BUY"
        /\ sheet.log[Len(sheet.log)].status = "Skipped: Amt"

\* C9: for every BUY signal with requestedPercent >= 99.9 the amount is
\* effectiveCap * requestedPercent / 100 * 0.999 (compared in whole cents).
C9_SafetyClamp ==
    SizedBuy /\ last.req_pct >= 999 =>
        last.amt0 \div 1000
            = ((((IF last.d2_cap <= last.bal THEN last.d2_cap ELSE last.bal)
                    * last.req_pct) \div 1000) * 999) \div 1000

\* C10: for every SELL signal, a free balance of exactly zero places no
\* order and the outcome is "Skipped"; otherwise exactly one order is
\* placed, whose quantity is the free balance quantized down to the step.
C10_SellSizing ==
    SizedSell =>
        IF last.bal = 0
        THEN /\ last.placed = 0
             /\ last.status = "Skipped: No Coins"
        ELSE /\ last.placed = 1
             /\ last.params.side = "SELL"
             /\ last.params.quantity
                    = <<(last.bal \div StepUnits(last.step))
                            * StepUnits(last.step)>>

----------------------------------------------------------------------------
(* Properties of the State Cache *)

\* The last operation was a signal with the right passphrase.
Signal == last.op = "webhook" /\ last.side # ""

\* C11, as stated: a signal that finds cached capital == 0 performs exactly
\* one read of the sheet before sizing and populates the cache, and the
\* signal handled right after a signal that read the sheet performs no
\* read.
C11_OneFallbackRead ==
    Signal =>
        /\ last.pre.d2_cap = 0 =>
               /\ last.storeReads = 1
               /\ last.d2_cap = Get(last.preD2, 0)
        /\ last.prevReads = 1 => last.storeReads = 0

\* C11, amended: a signal reads the sheet before sizing at most once, and
\* only when it finds cached capital == 0; a read that succeeds populates
\* the cache with the D2, E2 and H4 cells, a read that fails leaves the
\* cache as it was; a signal that finds a cached capital other than 0 does
\* not read the sheet and sizes from the cache.
C11_FallbackReadOnZeroCapital ==
    Signal =>
        /\ last.storeReads \in {0, 1}
        /\ last.pre.d2_cap # 0 =>
               /\ last.storeReads = 0
               /\ last.d2_cap = last.pre.d2_cap
               /\ last.e2_pct = last.pre.e2_pct
        /\ last.storeReads = 1 =>
               /\ last.pre.d2_cap = 0
               /\ last.d2_cap = Get(last.preD2, 0)
               /\ last.e2_pct = Get(last.preE2, DefaultPct)
               /\ BOT_MEMORY.e2_pct = Get(last.preE2, DefaultPct)
               /\ ~last.filled =>
                      /\ BOT_MEMORY.d2_cap = Get(last.preD2, 0)
                      /\ BOT_MEMORY.h4_cost = Get(last.preH4, 0)
        /\ last.pre.d2_cap = 0 /\ last.storeReads = 0 =>
               /\ last.d2_cap = 0
               /\ last.e2_pct = last.pre.e2_pct

\* A signal read the sheet and found a capital in D2; the signal handled
\* right after it sized its order from the cache without a read.
C11_Witness ==
    /\ Signal
    /\ last.prevReads = 1
    /\ last.storeReads = 0
    /\ last.pre.d2_cap > 0
    /\ last.sized /\ last.d2_cap = last.pre.d2_cap

\* The Exchange Gateway accepted the order of the last signal.
Accepted == Signal /\ last.status \in {"Filled", "Filled/Open"}

\* C12: after the handling of a signal whose order was accepted, the cache
\* holds the post-fill capital and cost basis, whether or not the sheet is
\* reachable; and a signal handled after it sizes from the cached capital.
C12_CacheHoldsPostFill ==
    /\ Accepted =>
           /\ last.filled
           /\ last.side = "BUY" =>
                  /\ BOT_MEMORY.h4_cost = last.cur_cost + last.v
                  /\ BOT_MEMORY.d2_cap = last.cur_cap
           /\ last.side = "SELL" /\ last.r + last.q > 0 =>
                  BOT_MEMORY.d2_cap =
                      last.cur_cap + last.v
                          - (last.cur_cost * last.q) \div (last.r + last.q)
    /\ Signal /\ last.pre.d2_cap # 0 =>
           /\ last.d2_cap = last.pre.d2_cap
           /\ last.filled => /\ last.cur_cap = last.pre.d2_cap
                             /\ last.cur_cost = last.pre.h4_cost

----------------------------------------------------------------------------
(* Properties of the persistence to the sheet *)

\* C13: every state update and log row a handled signal produced is
\* persisted to the sheet, a failed attempt being retried until it
\* succeeds.  The handler is the only writer of its entries (there is no
\* queue and no consumer), so the entries must be in the sheet when the
\* handler has returned: the D2 and H4 cells hold the capital and cost
\* basis of the fill, and the signal's row is in the log.
C13_EveryUpdatePersisted ==
    /\ Signal /\ last.filled =>
           /\ sheet.D2 = <<BOT_MEMORY.d2_cap>>
           /\ sheet.H4 = <<BOT_MEMORY.h4_cost>>
    /\ Signal /\ last.sized /\ last.status # "Pending" =>
           /\ last.logged = 1
           /\ sheet.log # <<>>
           /\ sheet.log[Len(sheet.log)].side = last.side

----------------------------------------------------------------------------
(* Properties of overlapping handlers *)

\* Every call of update_compounding_after_trade has returned, one at
\* least was made, and no sheet.update raised.
AllReturned ==
    /\ \A h \in Handlers : calls[h].pc \in {"idle", "done"}
    /\ \E h \in Handlers : calls[h].pc = "done"
    /\ \A h \in Handlers : ~calls[h].raised

\* C14: state updates reach the sheet in the order in which the handlers
\* produced them, also when handlers overlap: once all handlers have
\* finished, the D2 and H4 cells equal the values last written to the
\* cache, never an earlier update that landed late.
C14_StoreHoldsLastCacheWrite ==
    AllReturned =>
        /\ sheet.D2 = <<BOT_MEMORY.d2_cap>>
        /\ sheet.H4 = <<BOT_MEMORY.h4_cost>>

----------------------------------------------------------------------------
(* Properties of error handling *)

\* C15: a sheet failure never fails the trade response: for every signal
\* whose order the exchange accepted, or that was skipped, the caller gets
\* the filled or skipped result with status 200, whether or not opening
\* the sheet, writing the state cells or writing the log row failed.
C15_StoreFailureNeverFailsResponse ==
    (Signal /\ last.status \in {"Filled", "Filled/Open", "Skipped: Amt",
                                "Skipped: No Coins"}) =>
        /\ last.code = 200
        /\ last.resp_status \in {"order", "skipped", "Skipped"}

\* A signal that raised during sizing or order placement: it was neither
\* skipped nor answered by the exchange.
FailedMidFlight == Signal /\ last.status = "Pending"

\* C16: a signal that fails mid-flight always results in an error log row
\* and a failure response, and leaves capital and costBasis unchanged
\* (beyond what the fallback read loaded before the failure).
C16_MidFlightFailureLogged ==
    FailedMidFlight =>
        /\ last.code = 500
        /\ last.logged = 1
        /\ sheet.log # <<>>
        /\ sheet.log[Len(sheet.log)].side = "ERROR"
        /\ ~last.filled
        /\ BOT_MEMORY.d2_cap = last.d2_cap
        /\ last.storeReads = 0 => BOT_MEMORY.h4_cost = last.pre.h4_cost

----------------------------------------------------------------------------
(* Properties of the background refresher *)

Refreshed == last.op = "background_sync_loop"

\* C17: an iteration of background_sync_loop writes only d2_cap, e2_pct,
\* f2_type and last_error into the cache and leaves the cached cost basis
\* unchanged, so a fresher in-memory cost basis is never replaced by the
\* value of cell H4.
C17_RefresherLeavesCostBasis ==
    Refreshed => BOT_MEMORY.h4_cost = last.pre.h4_cost

\* An iteration ran while the cache held a cost basis that cell H4 does not
\* hold (a fill whose sheet update failed), and the cache kept it.
C17_Witness ==
    /\ Refreshed
    /\ BOT_MEMORY.h4_cost > 0
    /\ sheet.H4 # <<BOT_MEMORY.h4_cost>>
    /\ BOT_MEMORY.h4_cost = last.pre.h4_cost

\* C18: the refresher never stops: a failed iteration is contained (the
\* failure is recorded and the loop goes on to its sleep), and after
\* repeated failures the sleep before the next iteration is longer than
\* the normal period.
C18_BackoffAfterRepeatedFailures ==
    /\ Refreshed => /\ BOT_MEMORY.last_error = "Sync Failed"
                    /\ thread.sleep >= SyncPeriod
    /\ thread.fails > 1 => thread.sleep > SyncPeriod

----------------------------------------------------------------------------
(* Properties of authorization *)

\* C19: a request to /webhook or /cli whose passphrase is not exactly the
\* configured secret is rejected with 401 and nothing else happens: no
\* exchange call (open orders are not cancelled), no change to the cache,
\* no write to the sheet and no log row.
C19_UnauthorizedNoEffect ==
    [][(nreq' = nreq + 1 /\ ~Authorized(last'.passphrase)) =>
          /\ last'.code = 401
          /\ BOT_MEMORY' = BOT_MEMORY
          /\ sheet' = sheet
          /\ exchange' = exchange]_vars

\* A signal with a wrong passphrase was rejected while an order was open
\* and the log held a row.
C19_Witness ==
    /\ last.op = "webhook"
    /\ ~Authorized(last.passphrase)
    /\ last.code = 401
    /\ exchange.open # <<>>
    /\ sheet.log # <<>>

----------------------------------------------------------------------------
(* Properties of a SELL with nothing held *)

\* A call that has computed and written its new values.
Computed(h) == calls[h].pc \in {"D2", "H3", "H4", "done"}

NothingHeld(h) ==
    /\ calls[h].side = "SELL"
    /\ calls[h].rem_bal + calls[h].coin_qty <= 0

\* C20: for a SELL fill with total_held = rem_bal + coin_qty <= 0 the
\* cost-basis attribution is skipped, with no division by zero: the
\* realized profit is zero, so the capital and the cost basis computed are
\* the ones read.
C20_SellWithNothingHeld ==
    \A h \in Handlers :
        (Computed(h) /\ NothingHeld(h)) =>
            /\ calls[h].new_d2 = calls[h].current_cap
            /\ calls[h].new_h4 = calls[h].current_cost

\* Such a call returned while the cache held a cost basis, and the cache
\* still holds it.
C20_Witness ==
    \E h \in Handlers :
        /\ calls[h].pc = "done"
        /\ NothingHeld(h)
        /\ calls[h].current_cost > 0
        /\ calls[h].new_h4 = calls[h].current_cost
        /\ BOT_MEMORY.h4_cost = calls[h].current_cost

----------------------------------------------------------------------------
(* Properties of round_step_size *)

\* C21: for every step 10^-k and every quantity >= 0, round_step_size
\* returns a value that is <= the quantity, is a multiple of the step, and
\* differs from the quantity by less than one step; for a step <= 0 it
\* fails with an error instead of returning a value.  (Quantities and
\* results are in quarter steps and steps.)
C21_RoundStepSize ==
    /\ rounding.pc = "returned" =>
          /\ rounding.step_size \in {"1", "0.1", "0.00001"}
          /\ rounding.result >= 0
          /\ 4 * rounding.result <= rounding.num
          /\ rounding.num - 4 * rounding.result < 4
    /\ rounding.pc = "raised" => rounding.step_size \in {"0", "-1"}

----------------------------------------------------------------------------
(* Properties of order placement *)

\* C22: the open orders of the symbol are cancelled before a new order is
\* placed, so that at every point at most one order is open for it, also
\* when the cancel call fails.
C22_OneOpenOrder == Len(exchange.open) <= 1

\* C23: effective capital is a ceiling: the quote amount of every BUY
\* order placed is at most min(capital, wallet balance) as that signal
\* read them, for every percentage override of the signal.  (amt is in
\* milli-cents, capital and balance in cents.)
C23_EffectiveCapitalCeiling ==
    (SizedBuy /\ last.placed = 1) =>
        /\ last.amt <= 1000 * Min(last.d2_cap, last.bal)
        /\ last.params.quoteOrderQty # <<>> =>
               last.params.quoteOrderQty[1] <= Min(last.d2_cap, last.bal)

\* C24: the base quantity q passed to the compounding update for a SELL
\* is the order's total executed quantity (the quantity sold when the
\* order was filled, nothing when it rests open) and v is its cumulative
\* quote quantity, also when the order was filled in more than one fill:
\* v and q describe the same fills.
C24_SellFillInputs ==
    SellFill =>
        /\ last.q = IF last.nfills > 0 THEN last.params.quantity[1] ELSE 0
        /\ last.v = Quote(last.q, exchange.price)

\* The cache after the fills of the calls a and then b, applied one after
\* the other to the starting cost basis and capital.
OneAfterTheOther(a, b) ==
    LET s1 == NewState(run.cap0, run.c0, a.side, a.usdt_value, a.coin_qty,
                       a.rem_bal)
    IN  NewState(s1.d2, s1.h4, b.side, b.usdt_value, b.coin_qty, b.rem_bal)

\* C25: no update is lost between overlapping handlers: when the calls of
\* two handlers have returned, the cached capital and cost basis are the
\* result of applying the two fills one after the other in some order.
C25_NoLostUpdate ==
    \A a, b \in Handlers :
        (/\ a # b
         /\ calls[a].pc = "done" /\ calls[b].pc = "done"
         /\ \A h \in Handlers \ {a, b} : calls[h].pc = "idle") =>
            \E o \in {OneAfterTheOther(calls[a], calls[b]),
                      OneAfterTheOther(calls[b], calls[a])} :
                /\ BOT_MEMORY.d2_cap = o.d2
                /\ BOT_MEMORY.h4_cost = o.h4

\* C26: the trade log is append-only, also when two handlers compute the
\* next free row at once: every row a handler has written went to a sheet
\* row of 6 or more that no other handler has written, and is still there.
C26_LogAppendOnly ==
    \A a \in Handlers :
        calls[a].pc = "logged" =>
            /\ calls[a].written >= 6
            /\ calls[a].written - HeaderRows <= Len(sheet.log)
            /\ sheet.log[calls[a].written - HeaderRows] = calls[a].row_data[1]
            /\ \A b \in Handlers \ {a} :
                  calls[b].pc = "logged" =>
                      calls[b].written # calls[a].written

====
